---------------------------- MODULE Spec2Model ----------------------------
(***************************************************************************)
(* Model of lib/dpkg/tarfn.c: the tar header decoder (OtoL, StoC,          *)
(* get_prefix_name, DecodeTarHeader) and the extraction driver             *)
(* TarExtractor with its GNU long-name/long-link continuation and its      *)
(* deferred symlink list.                                                  *)
(*                                                                         *)
(* Bytes are naturals 0..255.  A block is a sequence of TARBLKSZ bytes     *)
(* laid out as struct TarHeader.  Pointers are allocation numbers (0 is    *)
(* NULL) into the variable heap, which maps every live allocation to its   *)
(* bytes, so that a buffer that is never freed stays visible.              *)
(***************************************************************************)
EXTENDS Integers, Sequences, FiniteSets, TLC

(***************************************************************************)
(* Bounds of the model.                                                    *)
(***************************************************************************)
\* Number of full blocks the byte source can deliver before it runs dry, for
\* archives over every block of BlockTab and for archives over LongBlocks.
MaxBlocks == 3
MaxLongBlocks == 4

(***************************************************************************)
(* Characters and program constants.                                       *)
(***************************************************************************)
NUL == 0
SPACE == 32
SLASH == 47
DIGIT0 == 48
DIGIT7 == 55
NULL == 0

TARBLKSZ == 512

\* enum TarFileType, the link flag byte of the header, and TARBLKSZ above: the
\* values of the tar format, which dpkg/tarfn.h gives these names.
NormalFile0 == 0
NormalFile1 == 48
HardLink == 49
SymbolicLink == 50
CharacterDevice == 51
BlockDevice == 52
Directory == 53
FIFO == 54
GNU_LONGLINK == 75
GNU_LONGNAME == 76

\* struct TarHeader: first byte (1-based) and width of each field.
NameOff == 1
NameLen == 100
ModeOff == 101
ModeLen == 8
UserIDOff == 109
UserIDLen == 8
GroupIDOff == 117
GroupIDLen == 8
SizeOff == 125
SizeLen == 12
ModificationTimeOff == 137
ModificationTimeLen == 12
ChecksumOff == 149
ChecksumLen == 8
LinkFlagOff == 157
LinkNameOff == 158
LinkNameLen == 100
MagicNumberOff == 258
MagicNumberLen == 8
UserNameOff == 266
UserNameLen == 32
GroupNameOff == 298
GroupNameLen == 32
MajorDeviceOff == 330
MajorDeviceLen == 8
MinorDeviceOff == 338
MinorDeviceLen == 8
PrefixOff == 346
PrefixLen == 155

\* offsetof(struct TarHeader, Checksum)
TarChecksumOffset == 148

\* "ustar\0" "00" and "ustar " " \0"
TAR_MAGIC_USTAR == <<117, 115, 116, 97, 114, 0, 48, 48>>
TAR_MAGIC_GNU == <<117, 115, 116, 97, 114, 32, 32, 0>>

(***************************************************************************)
(* Generic helpers on byte sequences.                                      *)
(***************************************************************************)
Min(a, b) == IF a < b THEN a ELSE b

Rep(n, b) == [i \in 1..n |-> b]

Take(s, n) == SubSeq(s, 1, Min(n, Len(s)))

\* strnlen(s + off - 1, size): bytes before the first NUL, at most size.
\* The index of the first NUL in mem[lo..hi], or hi + 1 when there is none (the
\* range is halved to keep the evaluation shallow).
RECURSIVE FirstNul(_, _, _)
FirstNul(mem, lo, hi) ==
    IF lo > hi THEN lo
    ELSE IF lo = hi THEN (IF mem[lo] = NUL THEN lo ELSE lo + 1)
    ELSE LET mid  == (lo + hi) \div 2
             left == FirstNul(mem, lo, mid)
         IN  IF left <= mid THEN left ELSE FirstNul(mem, mid + 1, hi)

StrNLen(mem, off, size) ==
    FirstNul(mem, off, Min(off + size - 1, Len(mem))) - off

\* The C string held by a NUL-terminated buffer: the bytes before the NUL.
CStr(buf) == SubSeq(buf, 1, StrNLen(buf, 1, Len(buf)))

Terminated(buf) == \E i \in 1..Len(buf) : buf[i] = NUL

(***************************************************************************)
(* OtoL: octal ASCII to long.  The accumulator n is a 32-bit int.          *)
(***************************************************************************)
\* (n * 010) + d in 32-bit two's complement, computed without leaving the
\* 32-bit range: n * 8 only depends on the low 29 bits of n.
\* (Signed overflow is undefined in C; two's complement wrap-around is what
\* the builds of this code produce, and the only outcome that matters where
\* the value is used: every other outcome is as far from the digits.)
Mul8Add(n, d) ==
    ((((n % 536870912) + 268435456) % 536870912) - 268435456) * 8 + d

\* while (*s == ' ') { s++; size--; }  -- the loop does not look at size.
RECURSIVE SkipSpaces(_, _, _)
SkipSpaces(mem, p, size) ==
    IF p <= Len(mem) /\ mem[p] = SPACE
    THEN SkipSpaces(mem, p + 1, size - 1)
    ELSE <<p, size>>

\* while (--size >= 0 && *s >= '0' && *s <= '7') n = (n * 010) + (*s++ - '0');
RECURSIVE OctalDigits(_, _, _, _)
OctalDigits(mem, p, size, n) ==
    IF size - 1 >= 0 /\ p <= Len(mem) /\ mem[p] >= DIGIT0 /\ mem[p] <= DIGIT7
    THEN OctalDigits(mem, p + 1, size - 1, Mul8Add(n, mem[p] - DIGIT0))
    ELSE n

\* OtoL(s, size) with s = mem + off - 1.
OtoL(mem, off, size) ==
    LET ps == SkipSpaces(mem, off, size)
    IN  OctalDigits(mem, ps[1], ps[2], 0)

\* The positions of mem the second loop of OtoL examines: *s is read only
\* when --size >= 0 held.
RECURSIVE DigitReads(_, _, _)
DigitReads(mem, p, size) ==
    IF size - 1 >= 0 /\ p <= Len(mem)
    THEN {p} \cup (IF mem[p] >= DIGIT0 /\ mem[p] <= DIGIT7
                   THEN DigitReads(mem, p + 1, size - 1)
                   ELSE {})
    ELSE {}

\* Every position OtoL examines: the first loop reads each space it skips and
\* the byte that stops it, the second loop the digits and the byte that stops
\* it.
OtoLReads(mem, off, size) ==
    LET ps == SkipSpaces(mem, off, size)
    IN  (off..ps[1]) \cup DigitReads(mem, ps[1], ps[2])

(***************************************************************************)
(* StoC and get_prefix_name: the bytes of the buffer they allocate.        *)
(***************************************************************************)
StoC(mem, off, size) ==
    SubSeq(mem, off, off + StrNLen(mem, off, size) - 1) \o <<NUL>>

\* strcpy(s, prefix); strcat(s, "/"); strcat(s, name) into m_malloc(257): the
\* bytes of s up to and including its terminating NUL.
get_prefix_name(mem) ==
    CStr(StoC(mem, PrefixOff, PrefixLen)) \o <<SLASH>> \o StoC(mem, NameOff, NameLen)

(***************************************************************************)
(* DecodeTarHeader.                                                        *)
(***************************************************************************)
\* sum += *s++ over mem[from..to]; the range is halved to keep the evaluation
\* shallow, the sum is the same.
RECURSIVE SumBytes(_, _, _)
SumBytes(mem, from, to) ==
    IF from > to THEN 0
    ELSE IF from = to THEN mem[from]
    ELSE LET mid == (from + to) \div 2
         IN  SumBytes(mem, from, mid) + SumBytes(mem, mid + 1, to)

\* Mutant: the checksum field is summed as it is written.
HeaderSumUnblanked(mem) == SumBytes(mem, 1, TARBLKSZ)

\* The sum with the checksum field taken as blanks.
HeaderSum(mem) ==
    SPACE * ChecksumLen
    + SumBytes(mem, 1, TarChecksumOffset)
    + SumBytes(mem, TarChecksumOffset + ChecksumLen + 1, TARBLKSZ)

TarFormat(mem) ==
    IF SubSeq(mem, MagicNumberOff, MagicNumberOff + 5) = SubSeq(TAR_MAGIC_GNU, 1, 6)
    THEN "gnu"
    ELSE IF SubSeq(mem, MagicNumberOff, MagicNumberOff + 5) = SubSeq(TAR_MAGIC_USTAR, 1, 6)
         THEN "ustar"
         ELSE "old"

\* What DecodeTarHeader stores in *d (NameBuf and LinkNameBuf are the bytes of
\* the two buffers it allocates) and the value it returns (ok).  getpwnam and
\* getgrnam are asked only for a non-empty user or group name, and the id
\* they find replaces the numeric one: LookupId stands for a lookup that
\* succeeds.  The archives of the model carry no user or group name.
LookupId(mem, off, numeric) == IF mem[off] # NUL THEN numeric + 1000 ELSE numeric

DecodeTarHeader(mem) ==
    [ format |-> TarFormat(mem),
      UserID |-> LookupId(mem, UserNameOff, OtoL(mem, UserIDOff, UserIDLen)),
      GroupID |-> LookupId(mem, GroupNameOff, OtoL(mem, GroupIDOff, GroupIDLen)),
      NameBuf |-> IF TarFormat(mem) = "ustar" /\ mem[PrefixOff] # NUL
                  THEN get_prefix_name(mem)
                  ELSE StoC(mem, NameOff, NameLen),
      LinkNameBuf |-> StoC(mem, LinkNameOff, LinkNameLen),
      Mode |-> OtoL(mem, ModeOff, ModeLen),
      Size |-> OtoL(mem, SizeOff, SizeLen),
      ModTime |-> OtoL(mem, ModificationTimeOff, ModificationTimeLen),
      Device |-> (OtoL(mem, MajorDeviceOff, MajorDeviceLen) % 256) * 256
                 + (OtoL(mem, MinorDeviceOff, MinorDeviceLen) % 256),
      Type |-> mem[LinkFlagOff],
      ok |-> HeaderSum(mem) = OtoL(mem, ChecksumOff, ChecksumLen) ]


(***************************************************************************)
(* The byte source: the blocks a read can deliver.  Headers are built the  *)
(* way tar writes them, with the checksum field holding the octal sum.     *)
(***************************************************************************)
Pad(s, w) == s \o Rep(w - Len(s), NUL)

RECURSIVE Octal(_, _)
Octal(n, w) == IF w = 0 THEN <<>> ELSE Octal(n \div 8, w - 1) \o <<DIGIT0 + (n % 8)>>

RawHeader(name, flag, link, size, magic, prefix, cks) ==
    Pad(name, NameLen)
    \o Octal(420, ModeLen - 1) \o <<NUL>>
    \o Octal(0, UserIDLen - 1) \o <<NUL>>
    \o Octal(0, GroupIDLen - 1) \o <<NUL>>
    \o Octal(size, SizeLen - 1) \o <<NUL>>
    \o Octal(0, ModificationTimeLen - 1) \o <<NUL>>
    \o cks
    \o <<flag>>
    \o Pad(link, LinkNameLen)
    \o magic
    \o Pad(<<>>, UserNameLen)
    \o Pad(<<>>, GroupNameLen)
    \o Octal(0, MajorDeviceLen - 1) \o <<NUL>>
    \o Octal(0, MinorDeviceLen - 1) \o <<NUL>>
    \o Pad(prefix, PrefixLen)
    \o Pad(<<>>, 12)

\* The sum of the bytes of a block.
BlockSum(block) == SumBytes(block, 1, TARBLKSZ)

\* The checksum field for the sum n: six octal digits, a NUL and a space.
ChecksumField(n) == Octal(n, 6) \o <<NUL, SPACE>>

MkHeader(name, flag, link, size, magic, prefix) ==
    RawHeader(name, flag, link, size, magic, prefix,
              ChecksumField(BlockSum(RawHeader(name, flag, link, size, magic, prefix,
                                               Rep(ChecksumLen, SPACE)))))

\* A header whose stored checksum is off by one.
MkCorrupt(name, flag, link, size, magic, prefix) ==
    RawHeader(name, flag, link, size, magic, prefix,
              ChecksumField(BlockSum(RawHeader(name, flag, link, size, magic, prefix,
                                               Rep(ChecksumLen, SPACE))) + 1))

NoMagic == Rep(MagicNumberLen, NUL)

\* The blocks of the model's archives; a read delivers any of them.
BlockTab ==
    << MkHeader(<<97>>, NormalFile1, <<>>, 0, TAR_MAGIC_GNU, <<>>),            \* 1 file "a"
       MkHeader(<<100, SLASH>>, Directory, <<>>, 0, TAR_MAGIC_GNU, <<>>),      \* 2 dir "d/"
       MkHeader(<<SLASH>>, NormalFile0, <<>>, 0, NoMagic, <<>>),               \* 3 old file "/"
       MkHeader(<<104>>, HardLink, <<97>>, 0, TAR_MAGIC_USTAR, <<112>>),       \* 4 link "p/h" -> "a"
       MkHeader(<<115>>, SymbolicLink, <<116>>, 0, TAR_MAGIC_GNU, <<>>),       \* 5 symlink "s" -> "t"
       MkHeader(<<117>>, SymbolicLink, <<118>>, 0, TAR_MAGIC_GNU, <<>>),       \* 6 symlink "u" -> "v"
       MkHeader(<<102>>, FIFO, <<>>, 0, TAR_MAGIC_GNU, <<>>),                  \* 7 fifo "f"
       MkHeader(<<76>>, GNU_LONGNAME, <<>>, 3, TAR_MAGIC_GNU, <<>>),           \* 8 long name, 3 bytes
       MkHeader(<<76>>, GNU_LONGNAME, <<>>, 513, TAR_MAGIC_GNU, <<>>),         \* 9 long name, 513 bytes
       MkHeader(<<75>>, GNU_LONGLINK, <<>>, 2, TAR_MAGIC_GNU, <<>>),           \* 10 long link, 2 bytes
       Rep(TARBLKSZ, NUL),                                                     \* 11 zero block
       MkCorrupt(<<97>>, NormalFile1, <<>>, 0, TAR_MAGIC_GNU, <<>>),           \* 12 bad checksum
       MkHeader(<<>>, NormalFile1, <<>>, 0, TAR_MAGIC_GNU, <<>>),              \* 13 valid, empty name
       MkHeader(<<113>>, 120, <<>>, 0, TAR_MAGIC_GNU, <<>>),                   \* 14 type 'x'
       MkHeader(<<101, SLASH, SLASH>>, NormalFile1, <<>>, 0, TAR_MAGIC_GNU, <<>>) >>  \* 15 file "e//"

Decoded == [i \in DOMAIN BlockTab |-> DecodeTarHeader(BlockTab[i])]

(***************************************************************************)
(* The environment: what ops->read and the other operations may return.    *)
(***************************************************************************)
\* ops->read: an I/O error, end of stream, a partial block, or (with a block
\* of BlockTab) a full block.
ShortReads == {-3, 0, TARBLKSZ - 1}

\* extract_file, mkdir, link, mknod, symlink: success or a failure value.
OpResults == {0, -2, 3}

\* Reading a string from a buffer that holds no NUL runs into whatever the
\* allocator left behind it: nothing (a NUL follows at once) or more bytes.
OverreadTails == {<<>>, <<121>>}

\* The bytes of a fresh m_malloc(n) are indeterminate.
UninitBytes == {NUL, 121}

Tails(buf) == IF Terminated(buf) THEN {<<>>} ELSE OverreadTails

\* The string a reader of the buffer sees.
View(buf, tail) == CStr(buf \o tail \o <<NUL>>)

(***************************************************************************)
(* The heap.                                                               *)
(***************************************************************************)
EmptyHeap == [q \in {} |-> <<>>]

Alloc(hp, id, bytes) == [q \in DOMAIN hp \cup {id} |-> IF q = id THEN bytes ELSE hp[q]]

\* free(p); free(NULL) does nothing.
Free(hp, p) == [q \in DOMAIN hp \ {p} |-> hp[q]]

(***************************************************************************)
(* State of one call of TarExtractor.                                      *)
(***************************************************************************)
VARIABLES
    pc,              \* "read": top of the main loop; "long": in the continuation
                     \* loop; "drain": at the symlink loop; "done": returned
    status,
    h,               \* struct TarInfo h; Name and LinkName are pointers
    heap,            \* live allocations
    nalloc,          \* allocations made so far
    next_long_name,
    next_long_link,
    longp,           \* "name" or "link": the slot *longp designates
    long_read,
    bp,              \* bytes copied into *longp so far
    symlinks,        \* the list symlink_head .. symlink_tail
    result,          \* the value returned
    nblocks,         \* full blocks delivered by the byte source
    source,          \* the byte source: the blocks it may hold and how many
    calls,           \* history: every call made through ops, in order
    loop_exit,       \* history: status and number of calls when the loop ended
    queued,          \* history: the strings of every symlink entry queued
    pay,             \* history: the continuation blocks read for each slot
    applied,         \* history: the names in h after the last override step, and
                     \* the name the switch saw when it called an operation
    fn_in,           \* a call of OtoL or DecodeTarHeader on its own: the arguments
    fn_out           \* ... and what the call returned and read

vars == <<pc, status, h, heap, nalloc, next_long_name, next_long_link, longp,
          long_read, bp, symlinks, result, nblocks, source, calls, loop_exit,
          queued, pay, applied, fn_in, fn_out>>

NoPay == [S |-> 0, data |-> <<>>, full |-> FALSE, set |-> FALSE]

NoApplied == [any |-> FALSE, blk |-> 0, call |-> 0, queue |-> 0, seen |-> <<>>,
              nameSet |-> FALSE, name |-> <<>>, nameWant |-> <<>>, nameFull |-> FALSE,
              linkSet |-> FALSE, link |-> <<>>, linkWant |-> <<>>, linkFull |-> FALSE]

\* No call of OtoL or DecodeTarHeader on its own is being followed.
NoCall == [f |-> "none"]

\* The locals of TarExtractor at the first statement of the loop.
InitLocals ==
    /\ status = 0
    /\ h = [Name |-> NULL, LinkName |-> NULL, format |-> "old", Mode |-> 0, Size |-> 0,
            ModTime |-> 0, Device |-> 0, UserID |-> 0, GroupID |-> 0, Type |-> 0]
    /\ heap = EmptyHeap
    /\ nalloc = 0
    /\ next_long_name = NULL
    /\ next_long_link = NULL
    /\ longp = "name"
    /\ long_read = 0
    /\ bp = 0
    /\ symlinks = <<>>
    /\ result = 0
    /\ nblocks = 0
    /\ calls = <<>>
    /\ loop_exit = [status |-> 0, ncalls |-> 0]
    /\ queued = <<>>
    /\ pay = [name |-> NoPay, link |-> NoPay]
    /\ applied = NoApplied

\* The state at the first statement of the loop; the byte source is src.
InitWith(src) ==
    /\ source = src
    /\ pc = "read"
    /\ fn_in = NoCall
    /\ fn_out = NoCall
    /\ InitLocals

\* Archives of up to MaxBlocks blocks over all of BlockTab.
Init == InitWith([blocks |-> DOMAIN BlockTab, max |-> MaxBlocks])

\* Longer archives over the blocks that matter to the continuation and to the
\* end of the archive: a directory, a symlink, the three markers, the zero
\* block and the corrupt header.
LongBlocks == {2, 5, 8, 9, 10, 11, 12}

InitLong == InitWith([blocks |-> LongBlocks, max |-> MaxLongBlocks])

ReadEv(at, r, i) == [op |-> "read", at |-> at, ret |-> r, blk |-> i, name |-> <<>>, link |-> <<>>]

OpEv(op, name, link, r) == [op |-> op, at |-> "op", ret |-> r, blk |-> 0, name |-> name, link |-> link]

(***************************************************************************)
(* Decisions of the driver, one operator per test in the code.             *)
(***************************************************************************)
\* Mutant: a failed checksum never counts as an error.
BadChecksumAlwaysEnd(name) == 0

\* Mutant: a failed checksum is always an error, the zero block included.
BadChecksumAlwaysError(name) == -1

\* A failed checksum: end of tape if the name is empty, else an error.
BadChecksumStatus(name) == IF name = <<>> THEN 0 ELSE -1

IsLongType(type) == type = GNU_LONGLINK \/ type = GNU_LONGNAME

\* Mutant: the pending buffer is dropped and the header's own field kept.
OverrideNever(decoded, pending) == decoded

\* Which pending buffer replaces the decoded pointer.
Override(decoded, pending) == IF pending # NULL THEN pending ELSE decoded

\* Mutant: a symbolic link is created as soon as its entry is read.
DispatchKindEager(type, name) ==
    CASE type \in {NormalFile0, NormalFile1} ->
           IF name[Len(name)] # SLASH THEN "extract_file" ELSE "mkdir"
      [] type = Directory -> "mkdir"
      [] type = HardLink -> "link"
      [] type = SymbolicLink -> "symlink"
      [] type \in {CharacterDevice, BlockDevice, FIFO} -> "mknod"
      [] IsLongType(type) -> "long"
      [] OTHER -> "bad"

\* The switch on h.Type: the operation called at once, "defer" for the symlink
\* list, "long" for the continuation, "bad" for the default case.
DispatchKind(type, name) ==
    CASE type \in {NormalFile0, NormalFile1} ->
           IF name[Len(name)] # SLASH THEN "extract_file" ELSE "mkdir"
      [] type = Directory -> "mkdir"
      [] type = HardLink -> "link"
      [] type = SymbolicLink -> "defer"
      [] type \in {CharacterDevice, BlockDevice, FIFO} -> "mknod"
      [] IsLongType(type) -> "long"
      [] OTHER -> "bad"

\* Mutant: a trailing '/' is never removed.
StripSlashNever(buf, nameLength) == buf

\* if (h.Name[nameLength - 1] == '/') h.Name[nameLength - 1] = '\0';
StripSlash(buf, nameLength) ==
    IF nameLength <= Len(buf) /\ buf[nameLength] = SLASH
    THEN [buf EXCEPT ![nameLength] = NUL]
    ELSE buf

\* Appending a node to the symlink list.
Enqueue(list, node) == Append(list, node)

\* Mutant: the symlink loop never moves to the next node.
NextNodeStuck(list) == list

\* symlink_node = symlink_head->next; ...; symlink_head = symlink_node;
NextNode(list) == Tail(list)

\* Mutant: the pending buffers stay in their slots after a non-marker entry.
ClearPendingNever(type, pending) == pending

\* next_long_link = NULL; next_long_name = NULL; for a non-marker entry.
ClearPending(type, pending) == IF IsLongType(type) THEN pending ELSE NULL

\* Mutant: an empty name ends the archive as the zero block does.
EmptyNameIsEnd(name) == 0

\* if (h.Name[0] == '\0') { status = -1; break; }
EmptyNameStatus(name) == IF name = <<>> THEN -1 ELSE 0

\* if (status != 0) break;
LoopBreaks(st) == st # 0

\* A continuation read that did not return TARBLKSZ.
LongReadStatus(r) == IF r > 0 THEN -1 ELSE r

\* copysize = min(long_read, TARBLKSZ)
CopySize(lr) == Min(lr, TARBLKSZ)

\* memcpy(bp, buffer, copysize) with bp at offset off of the buffer.
CopyInto(buf, off, block, n) ==
    [k \in 1..Len(buf) |-> IF k > off /\ k <= off + n THEN block[k - off] ELSE buf[k]]

\* Mutant: the symlink loop calls ops->symlink whatever the status.
DrainInvokesAlways(st) == TRUE

\* if (status == 0) status = ops->symlink(...)
DrainInvokes(st) == st = 0

\* Mutant: the final status is returned as it is.
ReturnValueVerbatim(st) == st

\* The value returned for the final status.
ReturnValue(st) == IF st > 0 THEN -1 ELSE st

(***************************************************************************)
(* The main loop.                                                          *)
(***************************************************************************)
Set(pc2, st2, h2, heap2, na2, nln2, nll2, sl2, evs, q2, ap2, pay2) ==
    /\ pc' = pc2
    /\ status' = st2
    /\ h' = h2
    /\ heap' = heap2
    /\ nalloc' = na2
    /\ next_long_name' = nln2
    /\ next_long_link' = nll2
    /\ symlinks' = sl2
    /\ calls' = calls \o evs
    /\ loop_exit' = IF pc2 = "drain"
                    THEN [status |-> st2, ncalls |-> Len(calls) + Len(evs)]
                    ELSE loop_exit
    /\ queued' = q2
    /\ applied' = ap2
    /\ pay' = pay2
    /\ UNCHANGED <<fn_in, fn_out>>

\* The read at the head of the loop returns something other than a full
\* block: the loop ends with that status.
MainReadShort ==
    /\ pc = "read"
    /\ \E r \in ShortReads :
          /\ status' = r
          /\ calls' = Append(calls, ReadEv("hdr", r, 0))
          /\ loop_exit' = [status |-> r, ncalls |-> Len(calls) + 1]
    /\ pc' = "drain"
    /\ UNCHANGED <<h, heap, nalloc, next_long_name, next_long_link, longp, long_read,
                   bp, symlinks, result, nblocks, source, queued, pay, applied,
                   fn_in, fn_out>>

\* case GNU_LONGLINK / GNU_LONGNAME, up to the continuation loop: the old
\* buffer of the slot is freed and a new one of h.Size bytes allocated.
StartLong(i, h2, heap1, ev) ==
    LET slot == IF h2.Type = GNU_LONGNAME THEN "name" ELSE "link"
        old  == IF slot = "name" THEN next_long_name ELSE next_long_link
        id   == nalloc + 3
    IN  \E fill \in (IF h2.Size > 0 THEN UninitBytes ELSE {NUL}) :
          /\ Set(IF h2.Size > 0 THEN "long" ELSE "read",
                 IF h2.Size > 0 THEN TARBLKSZ ELSE 0,
                 h2,
                 Alloc(Free(heap1, old), id, Rep(h2.Size, fill)),
                 nalloc + 3,
                 IF slot = "name" THEN id ELSE next_long_name,
                 IF slot = "link" THEN id ELSE next_long_link,
                 symlinks, ev, queued, applied,
                 [pay EXCEPT ![slot] = [S |-> h2.Size, data |-> <<>>,
                                        full |-> h2.Size <= 0, set |-> TRUE]])
          /\ longp' = slot
          /\ long_read' = h2.Size
          /\ bp' = 0

\* The switch on h.Type for an entry with a non-empty name.
Dispatch(i, h2, heap1, nln2, nll2, ap2, pay2, ev, tn, tl) ==
    \E name \in {View(heap1[h2.Name], tn)} :
    \E link \in {View(heap1[h2.LinkName], tl)} :
    \E kind \in {DispatchKind(h2.Type, name)} :
        CASE kind \in {"extract_file", "link", "mknod", "symlink"} ->
               /\ \E ret \in OpResults :
                     Set(IF LoopBreaks(ret) THEN "drain" ELSE "read", ret, h2, heap1,
                         nalloc + 2, nln2, nll2, symlinks,
                         ev \o <<OpEv(kind, name, link, ret)>>, queued,
                         [ap2 EXCEPT !.call = Len(calls) + 2, !.seen = name], pay2)
               /\ UNCHANGED <<longp, long_read, bp>>
          [] kind = "mkdir" ->
               LET heap2 == [heap1 EXCEPT ![h2.Name] = StripSlash(@, Len(name))]
               IN  /\ \E ret \in OpResults :
                         Set(IF LoopBreaks(ret) THEN "drain" ELSE "read", ret, h2, heap2,
                             nalloc + 2, nln2, nll2, symlinks,
                             ev \o <<OpEv("mkdir", View(heap2[h2.Name], tn), link, ret)>>,
                             queued, [ap2 EXCEPT !.call = Len(calls) + 2, !.seen = name], pay2)
                   /\ UNCHANGED <<longp, long_read, bp>>
          [] kind = "defer" ->
               LET node  == nalloc + 3
                   nm    == nalloc + 4
                   ln    == nalloc + 5
                   heap2 == Alloc(Alloc(Alloc(heap1, node, <<>>), nm, name \o <<NUL>>),
                                  ln, link \o <<NUL>>)
               IN  /\ Set(IF LoopBreaks(0) THEN "drain" ELSE "read", 0, h2, heap2,
                          nalloc + 5, nln2, nll2,
                          Enqueue(symlinks, [node |-> node,
                                             h |-> [h2 EXCEPT !.Name = nm, !.LinkName = ln]]),
                          ev, Append(queued, [name |-> name, link |-> link]),
                          [ap2 EXCEPT !.queue = Len(queued) + 1], pay2)
                   /\ UNCHANGED <<longp, long_read, bp>>
          [] kind = "long" -> StartLong(i, h2, heap1, ev)
          [] OTHER ->
               /\ Set(IF LoopBreaks(-1) THEN "drain" ELSE "read", -1, h2, heap1,
                      nalloc + 2, nln2, nll2, symlinks, ev, queued, ap2, pay2)
               /\ UNCHANGED <<longp, long_read, bp>>

\* The header of the iteration: h as DecodeTarHeader fills it from the
\* decoded block d, Name and LinkName in two fresh buffers.
DecodedInfo(d) ==
    [Name |-> nalloc + 1, LinkName |-> nalloc + 2, format |-> d.format,
     Mode |-> d.Mode, Size |-> d.Size, ModTime |-> d.ModTime, Device |-> d.Device,
     UserID |-> d.UserID, GroupID |-> d.GroupID, Type |-> d.Type]

\* if (h.Type != GNU_LONGLINK && h.Type != GNU_LONGNAME): the pending buffers
\* replace the decoded name and link name.
Overridden(h1) ==
    IF IsLongType(h1.Type) THEN h1
    ELSE [h1 EXCEPT !.Name = Override(@, next_long_name),
                    !.LinkName = Override(@, next_long_link)]

\* History: the buffers in h after the override step of a non-marker entry,
\* against the bytes the continuation blocks delivered.
AppliedNow(i, h2, heap1) ==
    IF IsLongType(h2.Type) THEN applied
    ELSE [any |-> TRUE, blk |-> i, call |-> 0, queue |-> 0, seen |-> <<>>,
          nameSet |-> pay.name.set,
          name |-> heap1[h2.Name],
          nameWant |-> Take(pay.name.data, pay.name.S),
          nameFull |-> pay.name.full,
          linkSet |-> pay.link.set,
          link |-> heap1[h2.LinkName],
          linkWant |-> Take(pay.link.data, pay.link.S),
          linkFull |-> pay.link.full]

\* One iteration of the main loop whose read returns the full block i.  (The
\* singleton sets bind a value that is computed once.)
MainReadBlock ==
    /\ pc = "read"
    /\ nblocks < source.max
    /\ nblocks' = nblocks + 1
    /\ UNCHANGED <<result, source>>
    /\ \E i \in source.blocks :
       \E d \in {Decoded[i]} :
       \E heap1 \in {Alloc(Alloc(heap, nalloc + 1, d.NameBuf), nalloc + 2, d.LinkNameBuf)} :
       \E h1 \in {DecodedInfo(d)} :
       \E ev \in {<<ReadEv("hdr", TARBLKSZ, i)>>} :
         IF ~d.ok
         THEN /\ Set("drain", BadChecksumStatus(CStr(heap1[h1.Name])), h1, heap1,
                     nalloc + 2, next_long_name, next_long_link, symlinks, ev,
                     queued, applied, pay)
              /\ UNCHANGED <<longp, long_read, bp>>
         ELSE \E h2 \in {Overridden(h1)} :
              \E nln2 \in {ClearPending(h1.Type, next_long_name)} :
              \E nll2 \in {ClearPending(h1.Type, next_long_link)} :
              \E ap2 \in {AppliedNow(i, h2, heap1)} :
              \E pay2 \in {IF IsLongType(h1.Type) THEN pay
                           ELSE [name |-> NoPay, link |-> NoPay]} :
              \E tn \in Tails(heap1[h2.Name]), tl \in Tails(heap1[h2.LinkName]) :
                 IF View(heap1[h2.Name], tn) = <<>>
                 THEN /\ Set("drain", EmptyNameStatus(View(heap1[h2.Name], tn)), h2,
                             heap1, nalloc + 2, nln2, nll2, symlinks, ev, queued, ap2,
                             pay2)
                      /\ UNCHANGED <<longp, long_read, bp>>
                 ELSE Dispatch(i, h2, heap1, nln2, nll2, ap2, pay2, ev, tn, tl)

(***************************************************************************)
(* The continuation loop: one read per step.                               *)
(***************************************************************************)
LongReadShort ==
    /\ pc = "long"
    /\ \E r \in ShortReads :
         LET st == IF LongReadStatus(r) < 0 THEN LongReadStatus(r) ELSE 0
         IN  /\ status' = st
             /\ pc' = IF LoopBreaks(st) THEN "drain" ELSE "read"
             /\ calls' = Append(calls, ReadEv("long", r, 0))
             /\ loop_exit' = IF LoopBreaks(st)
                             THEN [status |-> st, ncalls |-> Len(calls) + 1]
                             ELSE loop_exit
    /\ UNCHANGED <<h, heap, nalloc, next_long_name, next_long_link, longp, long_read,
                   bp, symlinks, result, nblocks, source, queued, pay, applied,
                   fn_in, fn_out>>

LongReadBlock ==
    /\ pc = "long"
    /\ nblocks < source.max
    /\ nblocks' = nblocks + 1
    /\ \E i \in source.blocks :
       \E buffer \in {BlockTab[i]} :
       \E ptr \in {IF longp = "name" THEN next_long_name ELSE next_long_link} :
       \E copysize \in {CopySize(long_read)} :
       \E left \in {long_read - TARBLKSZ} :
          /\ heap' = [heap EXCEPT ![ptr] = CopyInto(@, bp, buffer, copysize)]
          /\ bp' = bp + copysize
          /\ long_read' = left
          /\ pc' = IF left > 0 THEN "long" ELSE "read"
          /\ status' = IF left > 0 THEN TARBLKSZ ELSE 0
          /\ calls' = Append(calls, ReadEv("long", TARBLKSZ, i))
          /\ pay' = [pay EXCEPT ![longp] = [@ EXCEPT !.data = @ \o buffer,
                                                     !.full = left <= 0]]
    /\ UNCHANGED <<h, nalloc, next_long_name, next_long_link, longp, symlinks, result,
                   source, loop_exit, queued, applied, fn_in, fn_out>>

(***************************************************************************)
(* After the loop: the symlink list, the last frees, the return value.     *)
(***************************************************************************)
Drain ==
    /\ pc = "drain"
    /\ symlinks # <<>>
    /\ LET node == Head(symlinks)
       IN  /\ IF DrainInvokes(status)
              THEN \E ret \in OpResults :
                      /\ status' = ret
                      /\ calls' = Append(calls, OpEv("symlink", CStr(heap[node.h.Name]),
                                                     CStr(heap[node.h.LinkName]), ret))
              ELSE UNCHANGED <<status, calls>>
           /\ heap' = Free(Free(Free(heap, node.h.Name), node.h.LinkName), node.node)
    /\ symlinks' = NextNode(symlinks)
    /\ UNCHANGED <<pc, h, nalloc, next_long_name, next_long_link, longp, long_read, bp,
                   result, nblocks, source, loop_exit, queued, pay, applied,
                   fn_in, fn_out>>

Return ==
    /\ pc = "drain"
    /\ symlinks = <<>>
    /\ heap' = Free(Free(heap, h.Name), h.LinkName)
    /\ result' = ReturnValue(status)
    /\ pc' = "done"
    /\ UNCHANGED <<status, h, nalloc, next_long_name, next_long_link, longp, long_read,
                   bp, symlinks, nblocks, source, calls, loop_exit, queued, pay,
                   applied, fn_in, fn_out>>

Next ==
    \/ MainReadShort
    \/ MainReadBlock
    \/ LongReadShort
    \/ LongReadBlock
    \/ Drain
    \/ Return

Spec == Init /\ [][Next]_vars

SpecLong == InitLong /\ [][Next]_vars

(***************************************************************************)
(* OtoL and DecodeTarHeader called on their own, on fields and blocks that *)
(* no archive of BlockTab holds.                                           *)
(***************************************************************************)
\* '8': a digit that is not octal.
DIGIT8 == 56

\* The widths of the octal fields of the header.
FieldWidths == {ChecksumLen, SizeLen}

\* Digit strings: up to twelve '7's, "0000007", and a 1, 2 or 4 followed by
\* zeros (2^27 .. 2^35).
Runs ==
    {Rep(k, DIGIT7) : k \in 0..SizeLen}
    \cup {Rep(6, DIGIT0) \o <<DIGIT7>>}
    \cup {<<DIGIT0 + m>> \o Rep(k, DIGIT0) : m \in {1, 2, 4}, k \in {0, 9, 10, 11}}

\* A field of w bytes: ns spaces, the digits, and if room is left a byte that
\* is no octal digit followed by fill bytes.
Field(w, ns, run, term, fill) ==
    IF ns + Len(run) < w
    THEN Rep(ns, SPACE) \o run \o <<term>> \o Rep(w - ns - Len(run) - 1, fill)
    ELSE Rep(ns, SPACE) \o run

Fields ==
    {Field(w, ns, run, term, fill) :
        w \in FieldWidths, ns \in {0, 1, 2, ChecksumLen, SizeLen}, run \in Runs,
        term \in {SPACE, NUL, DIGIT8}, fill \in {NUL, DIGIT7}}

\* What follows the field in memory.
Followers == {<<NUL>>, <<SPACE, SPACE, NUL>>, <<DIGIT7, NUL>>, <<SPACE, DIGIT7, NUL>>}

\* OtoL(s, size) with one byte before the field and a follower after it.
OtoLInputs ==
    {[f |-> "OtoL", mem |-> <<DIGIT7>> \o fld \o fol, off |-> 2, size |-> Len(fld)] :
        fld \in {x \in Fields : Len(x) \in FieldWidths}, fol \in Followers}

\* The block with its checksum field replaced.
WithChecksum(block, fld) ==
    [k \in 1..TARBLKSZ |->
        IF k >= ChecksumOff /\ k < ChecksumOff + ChecksumLen
        THEN fld[k - ChecksumOff + 1]
        ELSE block[k]]

\* The ways a checksum n is found written, and some that do not hold n.
ChecksumStyles(n) ==
    { Octal(n, 6) \o <<NUL, SPACE>>,
      Octal(n, 6) \o <<SPACE, NUL>>,
      <<SPACE>> \o Octal(n, 6) \o <<NUL>>,
      <<SPACE, SPACE>> \o Octal(n, 6),
      Octal(n, 7) \o <<NUL>>,
      Octal(n, 8),
      Octal(n, 6) \o <<NUL, DIGIT7>>,
      Octal(n, 6) \o <<DIGIT8, DIGIT7>>,
      Octal(n + 1, 6) \o <<NUL, SPACE>>,
      Octal(n, 5) \o <<SPACE, DIGIT0 + (n % 8), NUL>>,
      Rep(ChecksumLen, SPACE),
      Rep(ChecksumLen, NUL) }

\* A file header with bytes above 127 in its name and in its last byte.
HighBytes == [BlockTab[1] EXCEPT ![NameOff + 1] = 200, ![TARBLKSZ] = 255]

DecodeInputs ==
    {[f |-> "DecodeTarHeader", mem |-> BlockTab[i]] : i \in DOMAIN BlockTab}
    \cup {[f |-> "DecodeTarHeader", mem |-> WithChecksum(b, fld)] :
            b \in {BlockTab[1], BlockTab[4], BlockTab[11], HighBytes},
            fld \in UNION {ChecksumStyles(BlockSum(WithChecksum(c, Rep(ChecksumLen, SPACE)))) :
                              c \in {BlockTab[1], HighBytes}}}

InitPure ==
    /\ source = [blocks |-> {}, max |-> 0]
    /\ pc = "call"
    /\ fn_in \in OtoLInputs \cup DecodeInputs
    /\ fn_out = NoCall
    /\ InitLocals

CallOtoL ==
    /\ pc = "call"
    /\ fn_in.f = "OtoL"
    /\ fn_out' = [f |-> "OtoL",
                  value |-> OtoL(fn_in.mem, fn_in.off, fn_in.size),
                  reads |-> OtoLReads(fn_in.mem, fn_in.off, fn_in.size)]
    /\ pc' = "ret"
    /\ UNCHANGED <<status, h, heap, nalloc, next_long_name, next_long_link, longp,
                   long_read, bp, symlinks, result, nblocks, source, calls, loop_exit,
                   queued, pay, applied, fn_in>>

CallDecodeTarHeader ==
    /\ pc = "call"
    /\ fn_in.f = "DecodeTarHeader"
    /\ fn_out' = [f |-> "DecodeTarHeader", d |-> DecodeTarHeader(fn_in.mem)]
    /\ pc' = "ret"
    /\ UNCHANGED <<status, h, heap, nalloc, next_long_name, next_long_link, longp,
                   long_read, bp, symlinks, result, nblocks, source, calls, loop_exit,
                   queued, pay, applied, fn_in>>

NextPure ==
    \/ CallOtoL
    \/ CallDecodeTarHeader

SpecPure == InitPure /\ [][NextPure]_vars

\* for (long_read = h.Size; long_read > 0; long_read -= TARBLKSZ): the number
\* of continuation reads when every read delivers a block.
ContinuationBlocks(size) == IF size > 0 THEN ((size - 1) \div TARBLKSZ) + 1 ELSE 0

\* Archives for the runs followed to their end: a file, two symlinks, a long
\* name of two continuation blocks and a corrupt header.
LiveBlocks == {1, 5, 6, 9, 12}

InitLive == InitWith([blocks |-> LiveBlocks, max |-> MaxBlocks])

\* Fairness: ops->read and the operations return, so the statement that
\* follows a call is executed.
SpecLive == InitLive /\ [][Next]_vars /\ WF_vars(Next)

(***************************************************************************)
(* Vocabulary of the properties.                                           *)
(***************************************************************************)
Done == pc = "done"

LoopEnded == pc \in {"drain", "done"}

IsRead(e) == e.op = "read"

IsSymlinkCall(e) == e.op = "symlink"

IsOpCall(e) == e.op # "read"

IsLast(k) == k = Len(calls)

\* The ops->symlink calls made so far, in order.
SymlinkCalls == SelectSeq(calls, IsSymlinkCall)

\* The call that ended the main loop.
ExitCall == calls[loop_exit.ncalls]

\* A partial block: more than nothing, less than a block.
PartialRead(e) == IsRead(e) /\ e.ret > 0 /\ e.ret < TARBLKSZ

\* A header read that delivered block i in full.
HeaderRead(e) == IsRead(e) /\ e.at = "hdr" /\ e.ret = TARBLKSZ

ChecksumBad(i) == ~Decoded[i].ok

NameEmpty(i) == Decoded[i].NameBuf[1] = NUL

(***************************************************************************)
(* C1: every ops->symlink call comes after the last call of any other      *)
(* operation and after the last read: once a symlink call has been made,  *)
(* every later call is a symlink call.                                     *)
(***************************************************************************)
C1_SymlinksAfterEverythingElse ==
    \A i, j \in DOMAIN calls :
        (i < j /\ IsSymlinkCall(calls[i])) => IsSymlinkCall(calls[j])

\* A directory, then a symlink, then a regular file: the symlink call is made
\* after the mkdir, the extract_file and the last read.
C1_Witness ==
    /\ Done
    /\ \E i, j, k, l \in DOMAIN calls :
          /\ i < j /\ j < k /\ k < l
          /\ calls[i].op = "mkdir"
          /\ HeaderRead(calls[j]) /\ Decoded[calls[j].blk].Type = SymbolicLink
          /\ calls[k].op = "extract_file"
          /\ IsSymlinkCall(calls[l]) /\ IsLast(l)
          /\ \E r \in DOMAIN calls : k < r /\ r < l /\ IsRead(calls[r])

\* The symlink calls are a prefix of the queued entries, in archive order and
\* with the queued strings, and only the last of them may have failed.
C2_FifoPrefix ==
    /\ Len(SymlinkCalls) <= Len(queued)
    /\ \A k \in DOMAIN SymlinkCalls :
          /\ SymlinkCalls[k].name = queued[k].name
          /\ SymlinkCalls[k].link = queued[k].link
          /\ k < Len(SymlinkCalls) => SymlinkCalls[k].ret = 0

(***************************************************************************)
(* C2: after a successful main pass ops->symlink is called for the queued  *)
(* entries in archive order, each at most once, with the name and link     *)
(* name it was queued with; the calls stop at the first one that returns   *)
(* non-zero, TarExtractor returns that value, and if none fails every      *)
(* queued entry has been called once.                                      *)
(***************************************************************************)
C2_DrainInOrder ==
    /\ C2_FifoPrefix
    /\ (Done /\ loop_exit.status = 0) =>
          IF SymlinkCalls # <<>> /\ SymlinkCalls[Len(SymlinkCalls)].ret # 0
          THEN result = SymlinkCalls[Len(SymlinkCalls)].ret
          ELSE Len(SymlinkCalls) = Len(queued) /\ result = 0

(***************************************************************************)
(* C3: when the main pass ends in failure no operation is called           *)
(* afterwards, no ops->symlink in particular, and the symlink list is      *)
(* empty when TarExtractor returns.                                        *)
(***************************************************************************)
C3_FailedPassCallsNothing ==
    /\ (LoopEnded /\ loop_exit.status # 0) => Len(calls) = loop_exit.ncalls
    /\ Done => symlinks = <<>>

\* A run that queued two symlinks, failed in the main pass and returned.
C3_Witness ==
    /\ Done
    /\ loop_exit.status # 0
    /\ Len(queued) = 2
    /\ result # 0

\* The main loop ended on a read of 0 bytes or on a block with an invalid
\* checksum and an empty name.
CleanEnd ==
    /\ LoopEnded
    /\ loop_exit.ncalls > 0
    /\ IsRead(ExitCall) /\ ExitCall.at = "hdr"
    /\ \/ ExitCall.ret = 0
       \/ ExitCall.ret = TARBLKSZ /\ ChecksumBad(ExitCall.blk) /\ NameEmpty(ExitCall.blk)

(***************************************************************************)
(* C4: a main-loop read of 0 bytes, or a full block with an invalid        *)
(* checksum and an empty name, ends the main pass with status 0; the       *)
(* queued symlinks are then called, and TarExtractor returns 0 if each of  *)
(* them returns 0, also when a long-name or long-link buffer is pending.   *)
(***************************************************************************)
C4_CleanEndIsSuccess ==
    CleanEnd =>
        /\ loop_exit.status = 0
        /\ (Done /\ \A k \in DOMAIN SymlinkCalls : SymlinkCalls[k].ret = 0) =>
              /\ result = 0
              /\ Len(SymlinkCalls) = Len(queued)

\* The zero block ends an archive that queued a symlink and left a long name
\* pending; the symlink is created and 0 returned.
C4_Witness ==
    /\ Done
    /\ CleanEnd
    /\ ExitCall.ret = TARBLKSZ
    /\ next_long_name # NULL
    /\ Len(SymlinkCalls) = 1
    /\ result = 0

(***************************************************************************)
(* C5: a read of more than 0 and fewer than 512 bytes, in the main loop    *)
(* or in the continuation loop, is the last call TarExtractor makes, and   *)
(* TarExtractor returns -1.                                                *)
(***************************************************************************)
C5_PartialReadFails ==
    \A k \in DOMAIN calls :
        PartialRead(calls[k]) => /\ IsLast(k)
                                 /\ Done => result = -1

\* A partial continuation block after a symlink was queued.
C5_Witness ==
    /\ Done
    /\ queued # <<>>
    /\ PartialRead(calls[Len(calls)])
    /\ calls[Len(calls)].at = "long"
    /\ result = -1

(***************************************************************************)
(* C6: after a marker of size S > 0, when a continuation read does not     *)
(* deliver a full block, end of stream (0 bytes) included, TarExtractor    *)
(* returns non-zero and calls no operation after that read.                *)
(***************************************************************************)
C6_TruncatedContinuationFails ==
    Done =>
        \A k \in DOMAIN calls :
            (IsRead(calls[k]) /\ calls[k].at = "long"
                /\ calls[k].ret >= 0 /\ calls[k].ret < TARBLKSZ)
            => /\ result # 0
               /\ \A j \in DOMAIN calls : j > k => ~IsOpCall(calls[j])

(***************************************************************************)
(* C7: a non-zero result of extract_file, mkdir, link, mknod or symlink    *)
(* is the last call TarExtractor makes and is the value TarExtractor       *)
(* returns, whatever its sign.                                             *)
(***************************************************************************)
C7_OpFailureVerbatim ==
    \A k \in DOMAIN calls :
        (IsOpCall(calls[k]) /\ calls[k].ret # 0)
        => /\ IsLast(k)
           /\ Done => result = calls[k].ret

\* A string without its trailing '/'.
DropSlash(str) ==
    IF str # <<>> /\ str[Len(str)] = SLASH THEN SubSeq(str, 1, Len(str) - 1) ELSE str

\* The name and link name handed on for the entry of the last override step.
Handed ==
    IF applied.call > 0
    THEN [any |-> TRUE, name |-> calls[applied.call].name, link |-> calls[applied.call].link,
          mkdir |-> calls[applied.call].op = "mkdir"]
    ELSE IF applied.queue > 0
         THEN [any |-> TRUE, name |-> queued[applied.queue].name,
               link |-> queued[applied.queue].link, mkdir |-> FALSE]
         ELSE [any |-> FALSE, name |-> <<>>, link |-> <<>>, mkdir |-> FALSE]

C9_AllMemoryReleased == Done => DOMAIN heap = {}

\* A header read whose block has an invalid checksum and a non-empty name.
CorruptHeader(e) == HeaderRead(e) /\ ChecksumBad(e.blk) /\ ~NameEmpty(e.blk)

(***************************************************************************)
(* C10: a full block with an invalid checksum and a non-empty name is the  *)
(* last call TarExtractor makes (no operation, no symlink), it leaves the  *)
(* pending long-name and long-link buffers in their slots, and             *)
(* TarExtractor returns -1.                                                *)
(***************************************************************************)
C10_ChecksumErrorFails ==
    \A k \in DOMAIN calls :
        CorruptHeader(calls[k]) =>
            /\ IsLast(k)
            /\ Done => result = -1
            /\ pay.name.set => (next_long_name # NULL /\ h.Name # next_long_name)
            /\ pay.link.set => (next_long_link # NULL /\ h.LinkName # next_long_link)

\* A corrupt header after a symlink was queued and a long name read.
C10_Witness ==
    /\ Done
    /\ calls # <<>>
    /\ CorruptHeader(calls[Len(calls)])
    /\ pay.name.set /\ pay.name.full
    /\ queued # <<>>
    /\ result = -1

\* A header read whose block has a valid checksum.
ValidHeader(e) == HeaderRead(e) /\ ~ChecksumBad(e.blk)

\* A valid header that is no long-name or long-link marker.
EntryHeader(e) == ValidHeader(e) /\ ~IsLongType(Decoded[e.blk].Type)

\* The last entry header among the first k calls (0: none).
RECURSIVE LastEntryIn(_)
LastEntryIn(k) ==
    IF k = 0 THEN 0
    ELSE IF EntryHeader(calls[k]) THEN k
    ELSE LastEntryIn(k - 1)

\* The last entry header read so far (0: none); applied describes it.
LastEntry == LastEntryIn(Len(calls))

\* The name of the last entry, after the override step, is the empty string:
\* h.Name[0] is a NUL.  (A buffer of no bytes has no h.Name[0] of its own.)
AppliedNameEmpty ==
    /\ applied.any
    /\ applied.name # <<>>
    /\ applied.name[1] = NUL

(***************************************************************************)
(* C11: a header with a valid checksum whose name, after the pending long  *)
(* name has replaced it, is empty ends the main pass with status -1: its   *)
(* read is the last call TarExtractor makes (no operation, no symlink)     *)
(* and TarExtractor returns -1, not the 0 of the end of the archive.       *)
(***************************************************************************)
C11_EmptyNameFails ==
    (AppliedNameEmpty /\ LastEntry > 0) =>
        /\ applied.blk = calls[LastEntry].blk
        /\ IsLast(LastEntry)
        /\ LoopEnded
        /\ loop_exit.status = -1
        /\ loop_exit.ncalls = LastEntry
        /\ Done => result = -1

\* A long name whose payload starts with a NUL replaces the name "a" of the
\* file entry that follows: TarExtractor returns -1 and has called nothing.
C11_Witness ==
    /\ Done
    /\ LastEntry > 0
    /\ applied.nameSet /\ applied.nameFull
    /\ AppliedNameEmpty
    /\ ~NameEmpty(applied.blk)
    /\ \A k \in DOMAIN calls : IsRead(calls[k])
    /\ result = -1

\* The same for a header whose own name field is empty.
C11_WitnessOwnName ==
    /\ Done
    /\ LastEntry > 0
    /\ ~applied.nameSet
    /\ NameEmpty(applied.blk)
    /\ queued # <<>>
    /\ result = -1

EndsWithSlash(str) == str # <<>> /\ str[Len(str)] = SLASH

\* The entry of the last override step had an operation called for it: the
\* type of the entry and the call.
AppliedType == Decoded[applied.blk].Type

AppliedCall == calls[applied.call]

\* str is the string a reader finds in buf: the bytes of buf before its first
\* NUL, followed, if buf holds no NUL, by what lies behind it.
ReadFrom(buf, str) ==
    /\ \A n \in 1..Min(Len(buf), Len(str)) : buf[n] = str[n] /\ str[n] # NUL
    /\ Len(str) < Len(buf) => buf[Len(str) + 1] = NUL

(***************************************************************************)
(* C12: for a regular file entry (type '\0' or '0') whose name ends with   *)
(* '/' ops->mkdir is called, not ops->extract_file, with the name less its *)
(* last '/' and no more; for any other name ops->extract_file is called    *)
(* with the name as it is.  For a Directory entry ops->mkdir is called     *)
(* with the name less one trailing '/' if it has one.                      *)
(***************************************************************************)
C12_TrailingSlash ==
    applied.call > 0 =>
        \E name \in {applied.seen} :
            /\ ReadFrom(applied.name, name)
            /\ AppliedType \in {NormalFile0, NormalFile1} =>
                  IF EndsWithSlash(name)
                  THEN /\ AppliedCall.op = "mkdir"
                       /\ AppliedCall.name = SubSeq(name, 1, Len(name) - 1)
                  ELSE /\ AppliedCall.op = "extract_file"
                       /\ AppliedCall.name = name
            /\ AppliedType = Directory =>
                  /\ AppliedCall.op = "mkdir"
                  /\ AppliedCall.name = DropSlash(name)

\* The file "e//" is made as the directory "e/", the directory "d/" as "d",
\* and the file "a" is extracted as "a".
C12_Witness ==
    \E i, j, k \in DOMAIN calls :
        /\ i < j /\ j < k
        /\ calls[i].op = "mkdir" /\ calls[i].name = <<101, SLASH>>
        /\ Decoded[calls[i - 1].blk].Type = NormalFile1
        /\ calls[j].op = "mkdir" /\ calls[j].name = <<100>>
        /\ Decoded[calls[j - 1].blk].Type = Directory
        /\ calls[k].op = "extract_file" /\ calls[k].name = <<97>>
        /\ applied.call = k

\* The calls of the main pass are the first MainEnd calls.
MainEnd == IF LoopEnded THEN loop_exit.ncalls ELSE Len(calls)

\* The number of operation calls the main pass made from call j on before
\* its next read: for j = k + 1, the calls made for the header read at k.
RECURSIVE EntryCalls(_)
EntryCalls(j) ==
    IF j <= MainEnd /\ IsOpCall(calls[j]) THEN 1 + EntryCalls(j + 1) ELSE 0

\* The name the header read at k is handled with is empty: the main pass ended
\* at that read, on the test of the name.
EntryNameEmpty(k) ==
    IF IsLongType(Decoded[calls[k].blk].Type)
    THEN NameEmpty(calls[k].blk)
    ELSE AppliedNameEmpty /\ k = LastEntry

\* The operations the switch prescribes for a type byte.
Prescribed(type) ==
    CASE type \in {NormalFile0, NormalFile1} -> {"extract_file", "mkdir"}
      [] type = Directory -> {"mkdir"}
      [] type = HardLink -> {"link"}
      [] type \in {CharacterDevice, BlockDevice, FIFO} -> {"mknod"}
      [] OTHER -> {}

KnownType(type) ==
    type \in {NormalFile0, NormalFile1, Directory, HardLink, SymbolicLink,
              CharacterDevice, BlockDevice, FIFO, GNU_LONGLINK, GNU_LONGNAME}

(***************************************************************************)
(* C13: for every header with a valid checksum and a non-empty name the    *)
(* main pass makes exactly the call of its type: one extract_file or       *)
(* mkdir for a regular file, one mkdir for a Directory, one link for a     *)
(* HardLink, one mknod for a device or FIFO, none for a SymbolicLink or a  *)
(* long-name or long-link marker; any other type byte gets no call, ends   *)
(* the main pass with status -1 and makes TarExtractor return -1.          *)
(***************************************************************************)
C13_OneCallPerEntry ==
    \A k \in DOMAIN calls :
        (ValidHeader(calls[k]) /\ ~EntryNameEmpty(k)) =>
            LET type == Decoded[calls[k].blk].Type
            IN  /\ Prescribed(type) # {} =>
                      /\ EntryCalls(k + 1) = 1
                      /\ calls[k + 1].op \in Prescribed(type)
                /\ Prescribed(type) = {} => EntryCalls(k + 1) = 0
                /\ ~KnownType(type) =>
                      /\ IsLast(k)
                      /\ LoopEnded /\ loop_exit.status = -1 /\ loop_exit.ncalls = k
                      /\ Done => result = -1

\* A FIFO gets its mknod, a symlink gets no call in the main pass, and the
\* entry of type 'x' ends the run with -1 before the symlink is created.
C13_Witness ==
    /\ Done
    /\ Len(calls) = 4
    /\ HeaderRead(calls[1]) /\ Decoded[calls[1].blk].Type = FIFO
    /\ calls[2].op = "mknod"
    /\ HeaderRead(calls[3]) /\ Decoded[calls[3].blk].Type = SymbolicLink
    /\ HeaderRead(calls[4]) /\ ~KnownType(Decoded[calls[4].blk].Type)
    /\ queued # <<>>
    /\ result = -1

\* A hard link and a long-link marker in one archive: one link call, no call
\* for the marker or its payload block.
C13_WitnessLink ==
    /\ Done
    /\ \E i, j \in DOMAIN calls :
          /\ HeaderRead(calls[i]) /\ Decoded[calls[i].blk].Type = HardLink
          /\ calls[i + 1].op = "link"
          /\ HeaderRead(calls[j]) /\ Decoded[calls[j].blk].Type = GNU_LONGLINK
    /\ Cardinality({k \in DOMAIN calls : IsOpCall(calls[k])}) = 1

(***************************************************************************)
(* Reference readings of an octal field and of the header sum, written     *)
(* from the format and not from the code.                                  *)
(***************************************************************************)
IsOctalDigit(b) == b >= DIGIT0 /\ b <= DIGIT7

\* The number of spaces the field begins with.
LeadingSpaces(fld) ==
    CHOOSE k \in 0..Len(fld) :
        /\ \A j \in 1..k : fld[j] = SPACE
        /\ k = Len(fld) \/ fld[k + 1] # SPACE

\* The longest run of octal digits that follows the leading spaces.
DigitRun(fld) ==
    LET s == LeadingSpaces(fld)
        e == CHOOSE e \in s..Len(fld) :
                /\ \A j \in (s + 1)..e : IsOctalDigit(fld[j])
                /\ e = Len(fld) \/ ~IsOctalDigit(fld[e + 1])
    IN  SubSeq(fld, s + 1, e)

\* The run without its leading zeros.
RECURSIVE Significant(_)
Significant(run) ==
    IF run # <<>> /\ run[1] = DIGIT0 THEN Significant(Tail(run)) ELSE run

\* The octal digits of n >= 0, without leading zeros.
RECURSIVE OctalOf(_)
OctalOf(n) == IF n = 0 THEN <<>> ELSE OctalOf(n \div 8) \o <<DIGIT0 + (n % 8)>>

\* v is the number the digits of the run denote (compared digit by digit, so
\* that runs beyond 2^31 can be compared too).
IsValueOf(v, run) == v >= 0 /\ OctalOf(v) = Significant(run)

\* The number a run of at most ten digits denotes.
RECURSIVE RunValue(_)
RunValue(run) ==
    IF run = <<>> THEN 0
    ELSE RunValue(SubSeq(run, 1, Len(run) - 1)) * 8 + (run[Len(run)] - DIGIT0)

\* The sum of the bytes lo..hi of the block as unsigned values, each byte of
\* the checksum field counted as a space.
RECURSIVE BlankedSum(_, _, _)
BlankedSum(block, lo, hi) ==
    IF lo > hi THEN 0
    ELSE IF lo = hi
         THEN (IF lo >= ChecksumOff /\ lo < ChecksumOff + ChecksumLen THEN SPACE ELSE block[lo])
         ELSE BlankedSum(block, lo, (lo + hi) \div 2)
              + BlankedSum(block, ((lo + hi) \div 2) + 1, hi)

ChecksumFieldOf(block) == SubSeq(block, ChecksumOff, ChecksumOff + ChecksumLen - 1)

(***************************************************************************)
(* C14: DecodeTarHeader returns true exactly when the number written in    *)
(* the 8-byte checksum field equals the sum of the 512 bytes of the block  *)
(* as unsigned values with the 8 bytes of the checksum field counted as    *)
(* spaces; it returns true or false for every block and raises no error.   *)
(***************************************************************************)
C14_ChecksumIff ==
    fn_out.f = "DecodeTarHeader" =>
        /\ fn_out.d.ok \in BOOLEAN
        /\ fn_out.d.ok <=>
              RunValue(DigitRun(ChecksumFieldOf(fn_in.mem)))
                 = BlankedSum(fn_in.mem, 1, TARBLKSZ)

\* A header with bytes above 127 whose checksum is written with a leading
\* space is accepted.
C14_Witness ==
    /\ fn_out.f = "DecodeTarHeader"
    /\ fn_out.d.ok
    /\ fn_in.mem[NameOff + 1] > 127
    /\ fn_in.mem[ChecksumOff] = SPACE

\* The same header with the checksum of another block is refused.
C14_WitnessRefused ==
    /\ fn_out.f = "DecodeTarHeader"
    /\ ~fn_out.d.ok
    /\ fn_in.mem[NameOff + 1] > 127
    /\ IsOctalDigit(fn_in.mem[ChecksumOff])

\* The field OtoL was given: size bytes from s.
FieldOf(in) == SubSeq(in.mem, in.off, in.off + in.size - 1)

\* The number the run denotes is below 2^31: at most ten significant digits,
\* or eleven that begin with a 1.
FitsInt(run) ==
    \/ Len(Significant(run)) <= 10
    \/ Len(Significant(run)) = 11 /\ Significant(run)[1] = DIGIT0 + 1

\* OtoL returns the number written in the field whenever that number is below
\* 2^31, whatever surrounds the digits.
C15_ValueBelowIntMax ==
    (fn_out.f = "OtoL" /\ FitsInt(DigitRun(FieldOf(fn_in)))) =>
        IsValueOf(fn_out.value, DigitRun(FieldOf(fn_in)))

(***************************************************************************)
(* C15: on a field of width W OtoL returns the value of the longest run    *)
(* of octal digits that follows the leading spaces within the first W      *)
(* bytes; a space or a NUL after the digits is no error.  "0000007 " gives *)
(* 7, and W spaces give 0 whatever follows the field.                      *)
(***************************************************************************)
C15_OtoLValue ==
    fn_out.f = "OtoL" =>
        /\ IsValueOf(fn_out.value, DigitRun(FieldOf(fn_in)))
        /\ FieldOf(fn_in) = Rep(6, DIGIT0) \o <<DIGIT7, SPACE>> => fn_out.value = 7
        /\ FieldOf(fn_in) = Rep(fn_in.size, SPACE) => fn_out.value = 0

(***************************************************************************)
(* C18: every byte OtoL examines lies within the field it was given, the   *)
(* bytes s[0] .. s[W-1], also while it skips leading spaces.               *)
(***************************************************************************)
C18_ReadsWithinField ==
    fn_out.f = "OtoL" =>
        fn_out.reads \subseteq fn_in.off..(fn_in.off + fn_in.size - 1)

\* What does hold: OtoL never examines a byte before the field.
C18_NoReadBefore ==
    fn_out.f = "OtoL" => \A p \in fn_out.reads : p >= fn_in.off

(***************************************************************************)
(* C19: for a 12-byte field (size, modification time) OtoL returns the     *)
(* exact value of the digits for every digit string that fits the field,  *)
(* never a wrapped or negative one, so that after a marker with a          *)
(* non-zero size at least one continuation block is read.                  *)
(***************************************************************************)
C19_ExactSize ==
    (fn_out.f = "OtoL" /\ fn_in.size = SizeLen) =>
        /\ IsValueOf(fn_out.value, DigitRun(FieldOf(fn_in)))
        /\ Significant(DigitRun(FieldOf(fn_in))) # <<>> =>
              ContinuationBlocks(fn_out.value) >= 1

\* A valid header of a marker of the given type, read after call number last.
PendingMarker(k, type, last) ==
    /\ k > last
    /\ ValidHeader(calls[k])
    /\ Decoded[calls[k].blk].Type = type

\* The most recent such marker among the first k calls (0: none).
RECURSIVE LastMarkerIn(_, _, _)
LastMarkerIn(k, type, last) ==
    IF k <= last THEN 0
    ELSE IF PendingMarker(k, type, last) THEN k
    ELSE LastMarkerIn(k - 1, type, last)

\* The most recent such marker (0: none).
LastMarker(type, last) == LastMarkerIn(Len(calls), type, last)

\* The continuation blocks delivered from call j on, concatenated.
RECURSIVE PayloadFrom(_)
PayloadFrom(j) ==
    IF j <= Len(calls) /\ IsRead(calls[j]) /\ calls[j].at = "long"
       /\ calls[j].ret = TARBLKSZ
    THEN BlockTab[calls[j].blk] \o PayloadFrom(j + 1)
    ELSE <<>>

\* The buffer begins with the payload bytes delivered so far.
HoldsPayload(buf, data) ==
    SubSeq(buf, 1, Min(Len(buf), Len(data))) = SubSeq(data, 1, Min(Len(buf), Len(data)))

\* The slot is empty if no marker of its type was read since the last entry
\* (call number last); else it points to a buffer of the size the most recent
\* such marker declares, holding the payload bytes delivered for that marker
\* so far.
SlotHolds(ptr, type, last) ==
    \E k \in {LastMarker(type, last)} :
        IF k = 0
        THEN ptr = NULL
        ELSE /\ ptr # NULL
             /\ ptr \in DOMAIN heap
             /\ Len(heap[ptr]) = Decoded[calls[k].blk].Size
             /\ \E data \in {PayloadFrom(k + 1)} : HoldsPayload(heap[ptr], data)

\* The last read among the first k calls (0: none).
RECURSIVE LastRead(_)
LastRead(k) == IF k = 0 \/ IsRead(calls[k]) THEN k ELSE LastRead(k - 1)

\* The last read is that of the header of an entry.
JustDecodedEntry == \E k \in {LastRead(Len(calls))} : k > 0 /\ EntryHeader(calls[k])

(***************************************************************************)
(* C16: each of next_long_name and next_long_link is NULL or holds the     *)
(* payload of the most recent marker of its kind read since the last       *)
(* non-marker entry (a later marker of the same kind takes the place of    *)
(* an earlier one that was not used, without error); once a non-marker     *)
(* entry with a valid checksum has been decoded both are NULL, whatever    *)
(* the type of the entry.                                                  *)
(***************************************************************************)
C16_PendingSlots ==
    /\ \E last \in {LastEntry} :
          /\ SlotHolds(next_long_name, GNU_LONGNAME, last)
          /\ SlotHolds(next_long_link, GNU_LONGLINK, last)
    /\ next_long_name # next_long_link \/ next_long_name = NULL
    /\ JustDecodedEntry => next_long_name = NULL /\ next_long_link = NULL

\* Two long-name markers in a row, each with its payload block: the slot
\* holds the three bytes of the second payload, which differ from the first,
\* and the main pass goes on.
C16_Witness ==
    /\ pc = "read"
    /\ Len(calls) = 4
    /\ LastMarker(GNU_LONGNAME, LastEntry) = 3
    /\ PendingMarker(1, GNU_LONGNAME, LastEntry)
    /\ next_long_name # NULL
    /\ calls[2].ret = TARBLKSZ /\ calls[4].ret = TARBLKSZ
    /\ heap[next_long_name] = Take(BlockTab[calls[4].blk], 3)
    /\ heap[next_long_name] # Take(BlockTab[calls[2].blk], 3)

\* A long name and a long link were pending when a directory entry, which
\* has no use for a link name, was decoded: both slots are empty.
C16_WitnessCleared ==
    /\ JustDecodedEntry
    /\ applied.nameSet /\ applied.linkSet
    /\ AppliedType = Directory
    /\ next_long_name = NULL /\ next_long_link = NULL

(***************************************************************************)
(* C17: every call of extract_file, mkdir, link, mknod or symlink is       *)
(* given an entry whose name is not empty at the time of the call, also    *)
(* for the name "/" and for names that end with '/'.                       *)
(***************************************************************************)
C17_NameNeverEmpty ==
    \A k \in DOMAIN calls : IsOpCall(calls[k]) => calls[k].name # <<>>

\* What does hold: only ops->mkdir is ever given an empty name, and only for
\* an entry whose name was "/".
C17_OnlySlashBecomesEmpty ==
    \A k \in DOMAIN calls :
        (IsOpCall(calls[k]) /\ calls[k].name = <<>>) =>
            /\ calls[k].op = "mkdir"
            /\ k = applied.call =>
                  applied.seen = <<SLASH>> /\ ReadFrom(applied.name, <<SLASH>>)

\* How far the call is from its return: four for every block the byte source
\* still holds, one for every node of the symlink list, and the position.
PcRank ==
    CASE pc = "long" -> 3
      [] pc = "read" -> 2
      [] pc = "drain" -> 1
      [] OTHER -> 0

Variant == 4 * (source.max - nblocks) + Len(symlinks) + PcRank

(***************************************************************************)
(* C20: TarExtractor terminates.  With a byte source that holds finitely   *)
(* many blocks and operations that return, every run reaches the return    *)
(* statement; and every step brings it nearer: an iteration of the main    *)
(* loop or of the continuation loop consumes a block or leaves its loop,   *)
(* and a step of the symlink loop takes one node off the list.             *)
(***************************************************************************)
C20_Terminates ==
    /\ <>Done
    /\ [][Variant' < Variant]_vars

\* A run that read every block the source held, queued two symlinks, created
\* both and returned.
C20_Witness ==
    /\ Done
    /\ nblocks = source.max
    /\ Len(queued) = 2
    /\ Len(SymlinkCalls) = 2
    /\ symlinks = <<>>

=============================================================================
